---- MODULE Spec2Model ----
(***************************************************************************)
(* Model of src/submit_application.py: one invocation of the submission    *)
(* script.  The process reads its environment, validates it, builds the    *)
(* canonical JSON payload, signs it, issues one urlopen() call, and maps   *)
(* the outcome of that call to output on the standard streams and to an    *)
(* exit code.                                                              *)
(*                                                                         *)
(* Text is a sequence of characters; a character is a one-character string *)
(* or, for a code point outside printable ASCII, the token "U+XXXX".       *)
(* Bytes are sequences of numbers 0..255.                                  *)
(*                                                                         *)
(* Lines 26-27 of the source give the e-mail address and the name as bare  *)
(* text inside the dict literal.  They are read here as the string         *)
(* literals they stand for (as section 9 of the specification reads them); *)
(* taken to the letter, line 27 does not compile and the script would only *)
(* ever exit with status 1 under a SyntaxError.                            *)
(*                                                                         *)
(* Library calls are modelled by their outcomes as the program sees them:  *)
(* urlopen() is one call that returns a response, or raises HTTPError,     *)
(* URLError or another exception; str.encode/bytes.decode are strict       *)
(* UTF-8; hmac/sha256 is abstracted by a 15-bit keyed checksum printed in  *)
(* lower-case hexadecimal.                                                 *)
(***************************************************************************)
EXTENDS Integers, Sequences, FiniteSets, TLC

\* Longest environment text enumerated for the link variables.
MaxLen == 2

----------------------------------------------------------------------------
(* Characters, code points, UTF-8                                          *)

Ascii ==
  <<" ", "!", "\"", "#", "$", "%", "&", "'", "(", ")", "*", "+", ",", "-",
    ".", "/", "0", "1", "2", "3", "4", "5", "6", "7", "8", "9", ":", ";",
    "<", "=", ">", "?", "@", "A", "B", "C", "D", "E", "F", "G", "H", "I",
    "J", "K", "L", "M", "N", "O", "P", "Q", "R", "S", "T", "U", "V", "W",
    "X", "Y", "Z", "[", "\\", "]", "^", "_", "U+0060", "a", "b", "c", "d", "e",
    "f", "g", "h", "i", "j", "k", "l", "m", "n", "o", "p", "q", "r", "s",
    "t", "u", "v", "w", "x", "y", "z", "{", "|", "}", "~">>

\* U+00E9 (e acute) stands for non-ASCII text; U+D800 and U+DCFF are lone
\* surrogates: U+DCFF is what os.environ yields for an undecodable byte 0xFF,
\* U+D800 is what json.loads yields for the escape \ud800.
Chars == {Ascii[i] : i \in 1..Len(Ascii)} \cup {"U+00E9", "U+D800", "U+DCFF"}

\* ord(c)
CodePointTable ==
  [c \in Chars |->
     CASE c = "U+00E9" -> 233
       [] c = "U+D800" -> 55296
       [] c = "U+DCFF" -> 56575
       [] OTHER -> 31 + (CHOOSE i \in 1..Len(Ascii) : Ascii[i] = c)]

CodePoint(c) == CodePointTable[c]

\* chr(cp)
CharOf(cp) ==
  IF cp >= 32 /\ cp <= 126 THEN Ascii[cp - 31]
  ELSE CHOOSE c \in {"U+00E9", "U+D800", "U+DCFF"} : CodePoint(c) = cp

IsSurrogate(cp) == cp >= 55296 /\ cp <= 57343

\* str.encode(utf-8) raises UnicodeEncodeError on a lone surrogate.
Utf8Encodable(text) == \A i \in 1..Len(text) : ~IsSurrogate(CodePoint(text[i]))

Utf8Char(cp) ==
  IF cp < 128 THEN <<cp>>
  ELSE IF cp < 2048 THEN <<192 + (cp \div 64), 128 + (cp % 64)>>
  ELSE <<224 + (cp \div 4096), 128 + ((cp \div 64) % 64), 128 + (cp % 64)>>

\* Encoding and decoding split the sequence in halves, so that the depth of
\* the evaluation stays logarithmic in its length.
RECURSIVE Utf8Encode(_)
Utf8Encode(text) ==
  IF text = <<>> THEN <<>>
  ELSE IF Len(text) = 1 THEN Utf8Char(CodePoint(text[1]))
  ELSE LET half == Len(text) \div 2
       IN  Utf8Encode(SubSeq(text, 1, half)) \o Utf8Encode(SubSeq(text, half + 1, Len(text)))

IsContinuation(b) == b >= 128 /\ b < 192

\* bytes.decode(utf-8) of well-formed one- and two-byte forms.
RECURSIVE Utf8Decode(_)
Utf8Decode(bytes) ==
  IF bytes = <<>> THEN <<>>
  ELSE IF Len(bytes) = 1 THEN <<CharOf(bytes[1])>>
  ELSE IF Len(bytes) = 2 /\ IsContinuation(bytes[2])
       THEN <<CharOf((bytes[1] - 192) * 64 + (bytes[2] - 128))>>
  ELSE LET mid == Len(bytes) \div 2
           cut == IF IsContinuation(bytes[mid + 1]) THEN mid + 1 ELSE mid
       IN  Utf8Decode(SubSeq(bytes, 1, cut)) \o Utf8Decode(SubSeq(bytes, cut + 1, Len(bytes)))

----------------------------------------------------------------------------
(* Python values                                                           *)

\* os.environ.get() of an unset variable.  The token "None" is not a
\* character, so None differs from every text.
None == <<"None">>

\* Truth value of an environment value: None and the empty string are false.
Falsy(v) == v = None \/ v = <<>>

Digits == <<"0", "1", "2", "3", "4", "5", "6", "7", "8", "9">>

\* n printed in decimal, zero-padded to w digits (format spec 0wd).
RECURSIVE Pad(_, _)
Pad(n, w) == IF w = 0 THEN <<>> ELSE Pad(n \div 10, w - 1) \o <<Digits[(n % 10) + 1]>>

\* str.replace(old, new): every non-overlapping occurrence, left to right.
RECURSIVE Replace(_, _, _)
Replace(text, old, new) ==
  IF Len(text) < Len(old) THEN text
  ELSE IF SubSeq(text, 1, Len(old)) = old
       THEN new \o Replace(SubSeq(text, Len(old) + 1, Len(text)), old, new)
       ELSE <<Head(text)>> \o Replace(Tail(text), old, new)

\* datetime.isoformat() of an aware UTC datetime: the microseconds are
\* omitted when they are zero.
isoformat(now) ==
  Pad(now.Y, 4) \o <<"-">> \o Pad(now.M, 2) \o <<"-">> \o Pad(now.D, 2)
    \o <<"T">> \o Pad(now.h, 2) \o <<":">> \o Pad(now.m, 2) \o <<":">> \o Pad(now.s, 2)
    \o (IF now.us = 0 THEN <<>> ELSE <<".">> \o Pad(now.us, 6))
    \o <<"+", "0", "0", ":", "0", "0">>

get_iso_timestamp(now) == Replace(isoformat(now), <<"+", "0", "0", ":", "0", "0">>, <<"Z">>)

----------------------------------------------------------------------------
(* json.dumps                                                              *)

\* Escaping of one character inside a JSON string with ensure_ascii=False:
\* only the quote and the backslash of the model's alphabet are escaped,
\* non-ASCII characters are written as they are.
JsonEscape(c) ==
  IF c = "\"" THEN <<"\\", "\"">>
  ELSE IF c = "\\" THEN <<"\\", "\\">>
  ELSE <<c>>

RECURSIVE JsonEscapeAll(_)
JsonEscapeAll(text) ==
  IF text = <<>> THEN <<>> ELSE JsonEscape(Head(text)) \o JsonEscapeAll(Tail(text))

JsonString(text) == <<"\"">> \o JsonEscapeAll(text) \o <<"\"">>

\* Python's str ordering: by code point, a proper prefix first.
RECURSIVE LexLess(_, _)
LexLess(a, b) ==
  IF b = <<>> THEN FALSE
  ELSE IF a = <<>> THEN TRUE
  ELSE IF CodePoint(Head(a)) # CodePoint(Head(b))
       THEN CodePoint(Head(a)) < CodePoint(Head(b))
       ELSE LexLess(Tail(a), Tail(b))

\* sorted(dict.items()) on <<key, value>> pairs: stable insertion sort by key.
RECURSIVE InsertItem(_, _)
InsertItem(item, sorted) ==
  IF sorted = <<>> THEN <<item>>
  ELSE IF LexLess(item[1], Head(sorted)[1]) THEN <<item>> \o sorted
  ELSE <<Head(sorted)>> \o InsertItem(item, Tail(sorted))

RECURSIVE SortItems(_)
SortItems(items) ==
  IF items = <<>> THEN <<>>
  ELSE InsertItem(items[Len(items)], SortItems(SubSeq(items, 1, Len(items) - 1)))

RECURSIVE JoinItems(_, _, _)
JoinItems(items, item_sep, key_sep) ==
  IF items = <<>> THEN <<>>
  ELSE JsonString(items[1][1]) \o key_sep \o JsonString(items[1][2])
         \o (IF Len(items) = 1 THEN <<>> ELSE item_sep)
         \o JoinItems(Tail(items), item_sep, key_sep)

\* json.dumps(d, separators=(item_sep, key_sep), sort_keys=..., ensure_ascii=False)
\* of a dict of strings, given as its items in insertion order.
json_dumps(items, item_sep, key_sep, sort_keys) ==
  <<"{">> \o JoinItems(IF sort_keys THEN SortItems(items) ELSE items, item_sep, key_sep)
         \o <<"}">>

----------------------------------------------------------------------------
(* The functions of submit_application.py                                  *)

K_action_run_link == <<"a", "c", "t", "i", "o", "n", "_", "r", "u", "n", "_", "l", "i", "n", "k">>
K_email == <<"e", "m", "a", "i", "l">>
K_name == <<"n", "a", "m", "e">>
K_repository_link ==
  <<"r", "e", "p", "o", "s", "i", "t", "o", "r", "y", "_", "l", "i", "n", "k">>
K_resume_link == <<"r", "e", "s", "u", "m", "e", "_", "l", "i", "n", "k">>
K_timestamp == <<"t", "i", "m", "e", "s", "t", "a", "m", "p">>

\* The literals of lines 26 and 27.
HardcodedEmail ==
  <<"g", "r", "e", "e", "n", "c", "o", "d", "e", "4", "5", "2", "3", "@",
    "g", "m", "a", "i", "l", ".", "c", "o", "m">>
HardcodedName == <<"S", "t", "e", "v", "e", "n", " ", "L", "e", "e">>

\* The dict literal of create_payload, as its items in insertion order.  The
\* name and email parameters are not used.
payload_dict(name, email, resume_link, repository_link, action_run_link, now) ==
  << <<K_action_run_link, action_run_link>>,
     <<K_email, HardcodedEmail>>,
     <<K_name, HardcodedName>>,
     <<K_repository_link, repository_link>>,
     <<K_resume_link, resume_link>>,
     <<K_timestamp, get_iso_timestamp(now)>> >>

\* Variant: json.dumps with its default separators.
payload_text_default_separators(name, email, resume_link, repository_link, action_run_link, now) ==
  json_dumps(payload_dict(name, email, resume_link, repository_link, action_run_link, now),
             <<",", " ">>, <<":", " ">>, TRUE)

\* The text create_payload hands to .encode(utf-8).
payload_text(name, email, resume_link, repository_link, action_run_link, now) ==
  json_dumps(payload_dict(name, email, resume_link, repository_link, action_run_link, now),
             <<",">>, <<":">>, TRUE)

\* create_payload returns the UTF-8 bytes of the text; it raises
\* UnicodeEncodeError when the text holds a lone surrogate.
create_payload_raises(name, email, resume_link, repository_link, action_run_link, now) ==
  ~Utf8Encodable(payload_text(name, email, resume_link, repository_link, action_run_link, now))

create_payload(name, email, resume_link, repository_link, action_run_link, now) ==
  Utf8Encode(payload_text(name, email, resume_link, repository_link, action_run_link, now))

\* Stand-in for hmac.new(key, msg, hashlib.sha256).hexdigest(): a keyed
\* 15-bit checksum of the key bytes followed by the message bytes, in
\* lower-case hexadecimal.
HexDigits ==
  <<"0", "1", "2", "3", "4", "5", "6", "7", "8", "9", "a", "b", "c", "d", "e", "f">>

RECURSIVE Pow31(_)
Pow31(n) ==
  IF n = 0 THEN 1
  ELSE LET r == Pow31(n \div 2)
       IN  IF n % 2 = 0 THEN (r * r) % 32768 ELSE (((r * r) % 32768) * 31) % 32768

\* Polynomial checksum: the sum of (b + 1) * 31^(distance from the end).
RECURSIVE Poly(_)
Poly(bytes) ==
  IF bytes = <<>> THEN 0
  ELSE IF Len(bytes) = 1 THEN (bytes[1] + 1) % 32768
  ELSE LET half == Len(bytes) \div 2
           right == SubSeq(bytes, half + 1, Len(bytes))
       IN  (Poly(SubSeq(bytes, 1, half)) * Pow31(Len(right)) + Poly(right)) % 32768

RECURSIVE Hex(_, _)
Hex(n, w) == IF w = 0 THEN <<>> ELSE Hex(n \div 16, w - 1) \o <<HexDigits[(n % 16) + 1]>>

hmac_hexdigest(key, msg) ==
  Hex((((Poly(key) * 257 + 99) % 32768) * Pow31(Len(msg) + 1) + Poly(msg)) % 32768, 4)

calculate_signature(json_body, secret) ==
  <<"s", "h", "a", "2", "5", "6", "=">> \o hmac_hexdigest(Utf8Encode(secret), json_body)

url == "https://b12.io/apply/submission"

\* Request(url, data=json_body, method=POST) with the two add_header calls.
\* Header names are case-insensitive on the wire and are recorded as the
\* source spells them.
Request(json_body, signature) ==
  [method |-> "POST", full_url |-> url, data |-> json_body,
   headers |-> [content_type |-> "application/json; charset=utf-8",
                x_signature_256 |-> signature]]

----------------------------------------------------------------------------
(* The environment                                                         *)

RequiredVars ==
  <<"APPLICATION_NAME", "APPLICATION_EMAIL", "APPLICATION_RESUME_LINK",
    "APPLICATION_REPOSITORY_LINK", "APPLICATION_ACTION_RUN_LINK">>

EnvVars == {RequiredVars[i] : i \in 1..Len(RequiredVars)} \cup {"SIGNING_SECRET"}

\* 'hello-there-from-b12', the default of line 93.
DefaultSecret ==
  <<"h", "e", "l", "l", "o", "-", "t", "h", "e", "r", "e", "-", "f", "r", "o", "m",
    "-", "b", "1", "2">>

\* Non-empty texts over the alphabet S of length at most n.
TextsOver(S, n) == UNION {[1..k -> S] : k \in 1..n}

\* What each variable may hold when the process starts: unset, empty, or a
\* text.  The link texts exercise the quote and the backslash (escaped by
\* json.dumps), a comma and a space (which look like separators), a
\* non-ASCII character, and a surrogate-escaped undecodable byte.
EnvValues(var) ==
  {None, <<>>} \cup
  CASE var = "APPLICATION_NAME" -> {<<"Z", "o", "U+00E9">>}
    [] var = "APPLICATION_EMAIL" -> {<<"a", "@", "b">>}
    [] var = "APPLICATION_RESUME_LINK" -> TextsOver({"\""}, MaxLen) \cup {<<"U+00E9">>}
    [] var = "APPLICATION_REPOSITORY_LINK" -> TextsOver({"\\"}, MaxLen) \cup {<<"U+DCFF">>}
    [] var = "APPLICATION_ACTION_RUN_LINK" -> TextsOver({",", " "}, MaxLen) \cup {<<":", " ">>}
    [] var = "SIGNING_SECRET" -> {<<"k">>}

\* Readings of datetime.now(timezone.utc): with and without microseconds.
Clock ==
  {[Y |-> 2026, M |-> 11, D |-> 1, h |-> 6, m |-> 4, s |-> 41, us |-> 855930],
   [Y |-> 2026, M |-> 11, D |-> 1, h |-> 6, m |-> 4, s |-> 41, us |-> 0]}

(* JSON values of a response, with Python's truth value and str()          *)

JAbsent == [t |-> "absent", n |-> 0, s |-> <<>>]
JNull == [t |-> "null", n |-> 0, s |-> <<>>]
JTrue == [t |-> "true", n |-> 0, s |-> <<>>]
JFalse == [t |-> "false", n |-> 0, s |-> <<>>]
JNum(k) == [t |-> "number", n |-> k, s |-> <<>>]
JStr(text) == [t |-> "string", n |-> 0, s |-> text]

\* bool(d.get(key)): a missing key gives None.
Truthy(v) ==
  \/ v.t = "true"
  \/ v.t = "number" /\ v.n # 0
  \/ v.t = "string" /\ v.s # <<>>

\* str(d.get(key, '')) as print() writes it.
PyStr(v) ==
  CASE v.t = "absent" -> <<>>
    [] v.t = "null" -> <<"N", "o", "n", "e">>
    [] v.t = "true" -> <<"T", "r", "u", "e">>
    [] v.t = "false" -> <<"F", "a", "l", "s", "e">>
    [] v.t = "number" -> <<Digits[v.n + 1]>>
    [] v.t = "string" -> v.s

\* A response body, by what .decode(utf-8) and json.loads make of it:
\* utf8 - the bytes are valid UTF-8; syntax - the text is valid JSON;
\* type - the type of the top-level value; success, receipt - the members
\* of a top-level object.
Body(utf8, syntax, type, success, receipt) ==
  [utf8 |-> utf8, syntax |-> syntax, type |-> type, success |-> success, receipt |-> receipt]

NoBody == Body(FALSE, FALSE, "none", JAbsent, JAbsent)

SuccessValues == {JAbsent, JTrue, JFalse, JNull, JNum(0), JNum(1), JStr(<<>>), JStr(<<"n", "o">>)}

ReceiptValues == {JAbsent, JNull, JStr(<<"R", "1", "2", "3">>), JStr(<<"U+D800">>)}

ResponseBodies ==
  {NoBody, Body(TRUE, FALSE, "none", JAbsent, JAbsent), Body(TRUE, TRUE, "array", JAbsent, JAbsent)}
    \cup {Body(TRUE, TRUE, "object", sv, rv) : sv \in SuccessValues, rv \in ReceiptValues}

\* The body stream of an HTTPError: absent (e.fp is None), or bytes that are
\* or are not valid UTF-8.
Fp(present, utf8, text) == [present |-> present, utf8 |-> utf8, text |-> text]

NoFp == Fp(FALSE, FALSE, <<>>)

ErrorStreams ==
  {NoFp, Fp(TRUE, FALSE, <<>>), Fp(TRUE, TRUE, <<>>),
   Fp(TRUE, TRUE, <<"s", "e", "r", "v", "e", "r", " ", "e", "r", "r", "o", "r">>)}

\* urlopen returns a response for a 2xx status and raises HTTPError for any
\* other status it is left with.
OkStatuses == {200, 201}
ErrorStatuses == {304, 404, 500}

Reasons == {<<"d", "n", "s">>}

NoOutcome == [kind |-> "none", status |-> 0, body |-> NoBody, fp |-> NoFp, reason |-> <<>>]

----------------------------------------------------------------------------
(* State                                                                   *)

VARIABLES
  env,       \* os.environ: variable name -> None (unset) or text
  pc,        \* "main", "urlopen" (blocked in the call), "exited"
  requests,  \* the requests handed to urlopen, in order
  outcome,   \* what the urlopen call returned or raised
  stdout,    \* lines written to sys.stdout
  stderr,    \* lines written to sys.stderr
  exitCode   \* status of the process once pc = "exited", -1 before

vars == <<env, pc, requests, outcome, stdout, stderr, exitCode>>

\* One line of output: the format of the print call, and the number and the
\* text it interpolates.
Line(fmt, code, text) == [fmt |-> fmt, code |-> code, text |-> text]

Init ==
  /\ \E n \in EnvValues("APPLICATION_NAME"), e \in EnvValues("APPLICATION_EMAIL"),
        r \in EnvValues("APPLICATION_RESUME_LINK"), p \in EnvValues("APPLICATION_REPOSITORY_LINK"),
        a \in EnvValues("APPLICATION_ACTION_RUN_LINK"), k \in EnvValues("SIGNING_SECRET") :
       env = [v \in EnvVars |->
                CASE v = "APPLICATION_NAME" -> n
                  [] v = "APPLICATION_EMAIL" -> e
                  [] v = "APPLICATION_RESUME_LINK" -> r
                  [] v = "APPLICATION_REPOSITORY_LINK" -> p
                  [] v = "APPLICATION_ACTION_RUN_LINK" -> a
                  [] v = "SIGNING_SECRET" -> k]
  /\ pc = "main"
  /\ requests = <<>>
  /\ outcome = NoOutcome
  /\ stdout = <<>>
  /\ stderr = <<>>
  /\ exitCode = -1

----------------------------------------------------------------------------
(* main                                                                    *)

os_environ_get(var, default) == IF env[var] = None THEN default ELSE env[var]

name == os_environ_get("APPLICATION_NAME", None)
email == os_environ_get("APPLICATION_EMAIL", None)
resume_link == os_environ_get("APPLICATION_RESUME_LINK", None)
repository_link == os_environ_get("APPLICATION_REPOSITORY_LINK", None)
action_run_link == os_environ_get("APPLICATION_ACTION_RUN_LINK", None)

\* Variant: the secret is not read from the environment.
signing_secret_fixed == DefaultSecret

\* Variant: os.environ.get(SIGNING_SECRET) or default, which also replaces
\* an empty secret.
signing_secret_or_default ==
  IF Falsy(env["SIGNING_SECRET"]) THEN DefaultSecret ELSE env["SIGNING_SECRET"]

signing_secret == os_environ_get("SIGNING_SECRET", DefaultSecret)

\* Variant: the name is left out of the validation.
required_fields_without_name ==
  << <<K_email, email>>, <<K_resume_link, resume_link>>,
     <<K_repository_link, repository_link>>, <<K_action_run_link, action_run_link>> >>

required_fields ==
  << <<K_name, name>>, <<K_email, email>>, <<K_resume_link, resume_link>>,
     <<K_repository_link, repository_link>>, <<K_action_run_link, action_run_link>> >>

RECURSIVE KeysOfFalsy(_)
KeysOfFalsy(items) ==
  IF items = <<>> THEN <<>>
  ELSE (IF Falsy(Head(items)[2]) THEN <<Head(items)[1]>> ELSE <<>>) \o KeysOfFalsy(Tail(items))

RECURSIVE KeysOfNone(_)
KeysOfNone(items) ==
  IF items = <<>> THEN <<>>
  ELSE (IF Head(items)[2] = None THEN <<Head(items)[1]>> ELSE <<>>) \o KeysOfNone(Tail(items))

\* Variant: only unset variables count as missing (value is None).
missing_fields_unset_only == KeysOfNone(required_fields)

missing_fields == KeysOfFalsy(required_fields)

\* sep.join(texts)
RECURSIVE Join(_, _)
Join(texts, sep) ==
  IF texts = <<>> THEN <<>>
  ELSE IF Len(texts) = 1 THEN texts[1]
  ELSE texts[1] \o sep \o Join(Tail(texts), sep)

\* Lines 106-112.
MissingDiagnostic ==
  << Line("Error: Missing required environment variables: {}", 0,
          Join(missing_fields, <<",", " ">>)),
     Line("\nRequired environment variables:", 0, <<>>),
     Line("  APPLICATION_NAME", 0, <<>>),
     Line("  APPLICATION_EMAIL", 0, <<>>),
     Line("  APPLICATION_RESUME_LINK", 0, <<>>),
     Line("  APPLICATION_REPOSITORY_LINK", 0, <<>>),
     Line("  APPLICATION_ACTION_RUN_LINK", 0, <<>>) >>

\* What the interpreter writes for an exception nobody catches; the process
\* then exits with status 1.
Traceback(exception) == Line("Traceback (most recent call last): {}", 0, exception)

UnicodeEncodeError ==
  <<"U", "n", "i", "c", "o", "d", "e", "E", "n", "c", "o", "d", "e", "E", "r", "r", "o", "r">>
UnicodeDecodeError ==
  <<"U", "n", "i", "c", "o", "d", "e", "D", "e", "c", "o", "d", "e", "E", "r", "r", "o", "r">>

\* main, lines 88-113: a required variable is unset or empty.
MainMissing ==
  /\ pc = "main"
  /\ missing_fields # <<>>
  /\ stderr' = stderr \o MissingDiagnostic
  /\ exitCode' = 1
  /\ pc' = "exited"
  /\ UNCHANGED <<env, requests, outcome, stdout>>

\* main line 115 and submit_application lines 48-51: create_payload raises
\* UnicodeEncodeError outside the try block.
MainEncodeError ==
  /\ pc = "main"
  /\ missing_fields = <<>>
  /\ \E now \in Clock :
       create_payload_raises(name, email, resume_link, repository_link, action_run_link, now)
  /\ stderr' = Append(stderr, Traceback(UnicodeEncodeError))
  /\ exitCode' = 1
  /\ pc' = "exited"
  /\ UNCHANGED <<env, requests, outcome, stdout>>

\* main line 115 and submit_application lines 48-62, up to the point where
\* the process blocks in urlopen.
MainSubmit ==
  /\ pc = "main"
  /\ missing_fields = <<>>
  /\ \E now \in Clock :
       /\ ~create_payload_raises(name, email, resume_link, repository_link, action_run_link, now)
       /\ LET json_body == create_payload(name, email, resume_link, repository_link,
                                          action_run_link, now)
              signature == calculate_signature(json_body, signing_secret)
          IN  requests' = Append(requests, Request(json_body, signature))
  /\ pc' = "urlopen"
  /\ UNCHANGED <<env, outcome, stdout, stderr, exitCode>>

----------------------------------------------------------------------------
(* submit_application, from the return of urlopen on                       *)

Exit(code) == exitCode' = code /\ pc' = "exited"

\* Lines 62-69 and 77-82: urlopen returns a response.
UrlopenReturns ==
  /\ pc = "urlopen"
  /\ \E status \in OkStatuses, body \in ResponseBodies :
       /\ outcome' = [kind |-> "response", status |-> status, body |-> body,
                      fp |-> NoFp, reason |-> <<>>]
       /\ IF ~body.utf8
          THEN \* .decode raises UnicodeDecodeError: except Exception
               /\ stderr' = Append(stderr, Line("Unexpected error: {e}", 0, UnicodeDecodeError))
               /\ stdout' = stdout
               /\ Exit(1)
          ELSE IF ~body.syntax
          THEN \* json.loads raises JSONDecodeError
               /\ stderr' = Append(stderr, Line("JSON Decode Error: {e}", 0, <<>>))
               /\ stdout' = stdout
               /\ Exit(1)
          ELSE IF body.type # "object"
          THEN \* response_data.get raises AttributeError: except Exception
               /\ stderr' = Append(stderr, Line("Unexpected error: {e}", 0, <<>>))
               /\ stdout' = stdout
               /\ Exit(1)
          ELSE IF Truthy(body.success)
          THEN IF Utf8Encodable(PyStr(body.receipt))
               THEN /\ stdout' = Append(stdout, Line("{}", 0, PyStr(body.receipt)))
                    /\ stderr' = stderr
                    /\ Exit(0)
               ELSE \* print raises UnicodeEncodeError inside the try block
                    /\ stderr' = Append(stderr, Line("Unexpected error: {e}", 0, UnicodeEncodeError))
                    /\ stdout' = stdout
                    /\ Exit(1)
          ELSE /\ stderr' = Append(stderr,
                    Line("Error: Submission was not successful. Response: {response_data}", 0, <<>>))
               /\ stdout' = stdout
               /\ Exit(1)
  /\ UNCHANGED <<env, requests>>

NoErrorDetails ==
  <<"N", "o", " ", "e", "r", "r", "o", "r", " ", "d", "e", "t", "a", "i", "l", "s">>

\* Lines 70-73: urlopen raises HTTPError.  The decode of line 71 runs inside
\* the handler, so a UnicodeDecodeError it raises is caught by nobody.
UrlopenHTTPError ==
  /\ pc = "urlopen"
  /\ \E status \in ErrorStatuses, fp \in ErrorStreams :
       /\ outcome' = [kind |-> "HTTPError", status |-> status, body |-> NoBody,
                      fp |-> fp, reason |-> <<>>]
       /\ IF fp.present /\ ~fp.utf8
          THEN stderr' = Append(stderr, Traceback(UnicodeDecodeError))
          ELSE stderr' = Append(stderr,
                 Line("HTTP Error {e.code}: {error_body}", status,
                      IF fp.present THEN fp.text ELSE NoErrorDetails))
  /\ Exit(1)
  /\ UNCHANGED <<env, requests, stdout>>

\* Variant: a transport failure is answered by sending the request again.
UrlopenURLError_retry ==
  /\ pc = "urlopen"
  /\ Len(requests) < 3
  /\ \E reason \in Reasons :
       /\ outcome' = [kind |-> "URLError", status |-> 0, body |-> NoBody,
                      fp |-> NoFp, reason |-> reason]
       /\ stderr' = Append(stderr, Line("URL Error: {e.reason}", 0, reason))
  /\ requests' = Append(requests, requests[1])
  /\ UNCHANGED <<env, pc, stdout, exitCode>>

\* Lines 74-76: urlopen raises URLError.
UrlopenURLError ==
  /\ pc = "urlopen"
  /\ \E reason \in Reasons :
       /\ outcome' = [kind |-> "URLError", status |-> 0, body |-> NoBody,
                      fp |-> NoFp, reason |-> reason]
       /\ stderr' = Append(stderr, Line("URL Error: {e.reason}", 0, reason))
  /\ Exit(1)
  /\ UNCHANGED <<env, requests, stdout>>

\* Lines 80-82: urlopen or response.read raises any other exception.
UrlopenException ==
  /\ pc = "urlopen"
  /\ outcome' = [kind |-> "Exception", status |-> 0, body |-> NoBody,
                 fp |-> NoFp, reason |-> <<>>]
  /\ stderr' = Append(stderr, Line("Unexpected error: {e}", 0, <<>>))
  /\ Exit(1)
  /\ UNCHANGED <<env, requests, stdout>>

Next ==
  \/ MainMissing
  \/ MainEncodeError
  \/ MainSubmit
  \/ UrlopenReturns
  \/ UrlopenHTTPError
  \/ UrlopenURLError
  \/ UrlopenException

Spec == Init /\ [][Next]_vars

TypeOK ==
  /\ pc \in {"main", "urlopen", "exited"}
  /\ exitCode \in {-1, 0, 1}
  /\ Len(requests) <= 1

----------------------------------------------------------------------------
(* Reading a payload back: a JSON parser for flat objects of strings, as   *)
(* the receiving service applies it to the request body.  It accepts       *)
(* spaces around the separators and records where it met one.              *)

\* The string whose opening quote precedes position j: its unescaped value
\* and the position after its closing quote.
RECURSIVE ScanChars(_, _, _)
ScanChars(t, j, acc) ==
  IF t[j] = "\"" THEN [val |-> acc, next |-> j + 1]
  ELSE IF t[j] = "\\" THEN ScanChars(t, j + 2, Append(acc, t[j + 1]))
  ELSE ScanChars(t, j + 1, Append(acc, t[j]))

RECURSIVE SkipSpaces(_, _)
SkipSpaces(t, i) == IF i <= Len(t) /\ t[i] = " " THEN SkipSpaces(t, i + 1) ELSE i

RECURSIVE ParseMembers(_, _, _)
ParseMembers(t, i, acc) ==
  LET k0 == SkipSpaces(t, i)
  IN  IF t[k0] = "}" THEN acc
      ELSE LET key == ScanChars(t, k0 + 1, <<>>)
               colon == SkipSpaces(t, key.next)
               v0 == SkipSpaces(t, colon + 1)
               val == ScanChars(t, v0 + 1, <<>>)
               sep == SkipSpaces(t, val.next)
               member == [key |-> key.val, value |-> val.val,
                          spaceAfterColon |-> v0 # colon + 1,
                          spaceAfterComma |-> t[sep] = "," /\ SkipSpaces(t, sep + 1) # sep + 1]
           IN  IF t[sep] = ","
               THEN ParseMembers(t, sep + 1, Append(acc, member))
               ELSE Append(acc, member)

\* The members of the object in body, in the order of the text.
Members(body) == ParseMembers(Utf8Decode(body), 2, <<>>)

\* json.loads(body)[key]: the value of the last member with that key.
Value(body, key) ==
  LET m == Members(body)
      last == CHOOSE i \in 1..Len(m) :
                m[i].key = key /\ \A j \in (i + 1)..Len(m) : m[j].key # key
  IN  m[last].value

HasKey(body, key) == \E i \in 1..Len(Members(body)) : Members(body)[i].key = key

\* text.split(sep) for a one-or-more character separator.
RECURSIVE SplitFrom(_, _, _)
SplitFrom(text, sep, cur) ==
  IF text = <<>> THEN <<cur>>
  ELSE IF Len(text) >= Len(sep) /\ SubSeq(text, 1, Len(sep)) = sep
       THEN <<cur>> \o SplitFrom(SubSeq(text, Len(sep) + 1, Len(text)), sep, <<>>)
       ELSE SplitFrom(Tail(text), sep, Append(cur, Head(text)))

Split(text, sep) == IF text = <<>> THEN <<>> ELSE SplitFrom(text, sep, <<>>)

----------------------------------------------------------------------------
(* Properties                                                              *)

\* The payload field each required variable feeds, and the name of the
\* variable as text.
FieldKey(var) ==
  CASE var = "APPLICATION_NAME" -> K_name
    [] var = "APPLICATION_EMAIL" -> K_email
    [] var = "APPLICATION_RESUME_LINK" -> K_resume_link
    [] var = "APPLICATION_REPOSITORY_LINK" -> K_repository_link
    [] var = "APPLICATION_ACTION_RUN_LINK" -> K_action_run_link

VarText(var) ==
  <<"A", "P", "P", "L", "I", "C", "A", "T", "I", "O", "N", "_">> \o
  CASE var = "APPLICATION_NAME" -> <<"N", "A", "M", "E">>
    [] var = "APPLICATION_EMAIL" -> <<"E", "M", "A", "I", "L">>
    [] var = "APPLICATION_RESUME_LINK" -> <<"R", "E", "S", "U", "M", "E", "_", "L", "I", "N", "K">>
    [] var = "APPLICATION_REPOSITORY_LINK" ->
         <<"R", "E", "P", "O", "S", "I", "T", "O", "R", "Y", "_", "L", "I", "N", "K">>
    [] var = "APPLICATION_ACTION_RUN_LINK" ->
         <<"A", "C", "T", "I", "O", "N", "_", "R", "U", "N", "_", "L", "I", "N", "K">>

IsMissing(var) == env[var] = None \/ env[var] = <<>>

\* The required variables that are unset or empty, in the order of the table.
MissingVars == SelectSeq(RequiredVars, IsMissing)

SomeMissing == MissingVars # <<>>

Exited == pc = "exited"

\* The urlopen call returned a 2xx response whose body is a JSON object with
\* a truthy success member.
SuccessOutcome ==
  /\ outcome.kind = "response"
  /\ outcome.status >= 200 /\ outcome.status < 300
  /\ outcome.body.utf8 /\ outcome.body.syntax /\ outcome.body.type = "object"
  /\ Truthy(outcome.body.success)

ReminderLines ==
  << Line("\nRequired environment variables:", 0, <<>>),
     Line("  APPLICATION_NAME", 0, <<>>),
     Line("  APPLICATION_EMAIL", 0, <<>>),
     Line("  APPLICATION_RESUME_LINK", 0, <<>>),
     Line("  APPLICATION_REPOSITORY_LINK", 0, <<>>),
     Line("  APPLICATION_ACTION_RUN_LINK", 0, <<>>) >>

\* C1: while a required variable is missing, no request is ever handed to
\* urlopen, the process never blocks in the call, and once it has exited its
\* status is 1 and urlopen was never called.
C1_NoRequestWhenMissing ==
  SomeMissing =>
    /\ requests = <<>>
    /\ pc # "urlopen"
    /\ outcome = NoOutcome
    /\ Exited => exitCode = 1

C1_Witness ==
  /\ Exited
  /\ \E i \in 1..Len(RequiredVars) : env[RequiredVars[i]] = None
  /\ exitCode = 1
  /\ requests = <<>>

\* C2: once the process has exited, its status is 0 or 1, and it is 0
\* exactly when the exchange returned a 2xx response whose body parses as
\* JSON and holds a truthy success member.
C2_ExitZeroIffSuccess ==
  Exited => /\ exitCode \in {0, 1}
            /\ exitCode = 0 <=> SuccessOutcome

\* C3: at most one request is ever issued, it is a POST, and whatever the
\* urlopen call returns or raises, the next step ends the process without
\* another request.
C3_SingleRequest ==
  [][/\ Len(requests') <= 1
     /\ \A i \in 1..Len(requests') : requests'[i].method = "POST"
     /\ pc = "urlopen" => (pc' = "exited" /\ requests' = requests)]_vars

C3_Witness ==
  /\ Exited
  /\ Len(requests) = 1
  /\ outcome.kind = "URLError"

\* C4: the X-Signature-256 header of every request sent is the signature of
\* exactly the bytes sent as its body, under the value of SIGNING_SECRET or,
\* when that is unset, under the placeholder secret; it starts with sha256=.
C4_SignatureOverBody ==
  \A i \in 1..Len(requests) :
    LET secret == IF env["SIGNING_SECRET"] = None THEN DefaultSecret ELSE env["SIGNING_SECRET"]
        signature == requests[i].headers.x_signature_256
    IN  /\ signature = calculate_signature(requests[i].data, secret)
        /\ SubSeq(signature, 1, 7) = <<"s", "h", "a", "2", "5", "6", "=">>
        /\ Len(signature) > 7

C4_Witness ==
  /\ Len(requests) = 1
  /\ env["SIGNING_SECRET"] = None
  /\ requests[1].headers.x_signature_256 = calculate_signature(requests[1].data, DefaultSecret)

\* C5: read back as JSON, the body of every request carries the name, the
\* email and the three links the caller passed (the values of the
\* environment).
C5_PayloadCarriesArguments ==
  \A i \in 1..Len(requests) :
    \A j \in 1..Len(RequiredVars) :
      /\ HasKey(requests[i].data, FieldKey(RequiredVars[j]))
      /\ Value(requests[i].data, FieldKey(RequiredVars[j])) = env[RequiredVars[j]]

\* C6: the body of every request holds exactly the six keys, each once, in
\* strictly ascending order of code points, with no space after a colon or a
\* comma that separates members.
C6_CanonicalPayload ==
  \A i \in 1..Len(requests) :
    LET m == Members(requests[i].data)
    IN  /\ Len(m) = 6
        /\ {m[k].key : k \in 1..Len(m)} =
             {K_action_run_link, K_email, K_name, K_repository_link, K_resume_link, K_timestamp}
        /\ \A k \in 1..(Len(m) - 1) : LexLess(m[k].key, m[k + 1].key)
        /\ \A k \in 1..Len(m) : ~m[k].spaceAfterColon /\ ~m[k].spaceAfterComma

C6_Witness ==
  /\ Len(requests) = 1
  /\ env["APPLICATION_ACTION_RUN_LINK"] = <<",", " ">>
  /\ Value(requests[1].data, K_action_run_link) = <<",", " ">>

\* C7 as stated: when required variables are missing, the first line of the
\* diagnostic lists the names of exactly the missing variables, the reminder
\* of the five names follows, and the status is 1.
C7_ListsVariableNames ==
  (Exited /\ SomeMissing) =>
    /\ Len(stderr) = 7
    /\ Split(stderr[1].text, <<",", " ">>) = [i \in 1..Len(MissingVars) |-> VarText(MissingVars[i])]
    /\ SubSeq(stderr, 2, 7) = ReminderLines
    /\ exitCode = 1

\* C7 as amended: the first line lists, for exactly the missing variables
\* and in the order of the table, the payload field key of each (name,
\* email, resume_link, repository_link, action_run_link); the reminder of
\* the five variable names follows, and the status is 1.
C7_ListsFieldKeys ==
  (Exited /\ SomeMissing) =>
    /\ Len(stderr) = 7
    /\ stderr[1].fmt = "Error: Missing required environment variables: {}"
    /\ Split(stderr[1].text, <<",", " ">>) = [i \in 1..Len(MissingVars) |-> FieldKey(MissingVars[i])]
    /\ SubSeq(stderr, 2, 7) = ReminderLines
    /\ stdout = <<>>
    /\ exitCode = 1

C7_Witness ==
  /\ Exited
  /\ env["APPLICATION_NAME"] = None
  /\ env["APPLICATION_EMAIL"] = <<>>
  /\ ~IsMissing("APPLICATION_RESUME_LINK")
  /\ Split(stderr[1].text, <<",", " ">>) = <<K_name, K_email>>

\* C8: when urlopen raised HTTPError, the error stream holds exactly one
\* diagnostic, the HTTP one, with the status code and the decoded body, or
\* the placeholder when there is no body stream, and the status is 1.
C8_HttpErrorDiagnostic ==
  (Exited /\ outcome.kind = "HTTPError") =>
    /\ stderr = << Line("HTTP Error {e.code}: {error_body}", outcome.status,
                        IF outcome.fp.present THEN outcome.fp.text ELSE NoErrorDetails) >>
    /\ stdout = <<>>
    /\ exitCode = 1

\* C9: on the success outcome standard output holds exactly the receipt (the
\* empty text when there is none), nothing is written to the error stream
\* and the status is 0; on every other outcome standard output stays empty
\* and the error stream holds the diagnostic.
C9_StdoutOnlyReceipt ==
  Exited =>
    IF SuccessOutcome
    THEN /\ stdout = <<Line("{}", 0, PyStr(outcome.body.receipt))>>
         /\ stderr = <<>>
         /\ exitCode = 0
    ELSE /\ stdout = <<>>
         /\ stderr # <<>>

\* C10: a required variable set to the empty text is reported like an unset
\* one (its field key is listed, status 1, no request), and an empty
\* SIGNING_SECRET is the key of the signature, not the placeholder.
C10_EmptyRequiredIsMissingEmptySecretIsKey ==
  /\ \A j \in 1..Len(RequiredVars) :
       env[RequiredVars[j]] = <<>> =>
         /\ requests = <<>>
         /\ Exited =>
              /\ exitCode = 1
              /\ \E k \in 1..Len(Split(stderr[1].text, <<",", " ">>)) :
                   Split(stderr[1].text, <<",", " ">>)[k] = FieldKey(RequiredVars[j])
  /\ env["SIGNING_SECRET"] = <<>> =>
       \A i \in 1..Len(requests) :
         /\ requests[i].headers.x_signature_256 = calculate_signature(requests[i].data, <<>>)
         /\ requests[i].headers.x_signature_256 #
              calculate_signature(requests[i].data, DefaultSecret)

C10_Witness ==
  /\ Exited
  /\ env["SIGNING_SECRET"] = <<>>
  /\ \A j \in 1..Len(RequiredVars) : env[RequiredVars[j]] # None
  /\ env["APPLICATION_RESUME_LINK"] = <<>>
  /\ exitCode = 1
  /\ requests = <<>>

====
